---- MODULE Spec2Model ----
(***************************************************************************)
(* Video-to-clips pipeline (video_clipper.py): the checkpoint store, the   *)
(* pipeline driver main(), the stage functions and the parallel cut stage  *)
(* with its background Telegram sender.                                    *)
(*                                                                         *)
(* One process (one run of main) exists at a time; `pc` is its position.   *)
(* What survives a run is the working directory: state.json, the video,    *)
(* audio, transcript and clip files, and the clip plan.                    *)
(***************************************************************************)
EXTENDS Integers, Sequences, FiniteSets, TLC

\* ---- bounds of the model ------------------------------------------------
\* clips of a plan handed to the cut stage; threads of its pool
MaxClips == 3
MaxWorkers == 2
\* clips of the plans supplied between the runs of the driver
MaxPlan == 1

\* ---- program constants --------------------------------------------------
ErrTrunc == 500

Clips == 1..MaxClips
Aspects == {"h", "v"}
Outputs == Clips \X Aspects
NoPlan == 0 - 1
Absent == 0 - 1

StageOrder == <<"none", "downloaded", "transcribed", "clips_identified", "cut", "uploaded">>
Rank(s) == CHOOSE i \in 1..Len(StageOrder) : StageOrder[i] = s

Intents == {"transcribe_only", "draft", "upload_only", "cut_and_upload", "cut_only", "full"}
Sources == {"local", "drive"}
MsgLens == {ErrTrunc, ErrTrunc + 1}

VARIABLES
    \* the working directory
    disk,        \* contents of state.json (its last complete contents)
    torn,        \* state.json is truncated / partly written (not parseable)
    video,       \* the video file exists in the work dir
    audio,       \* the extracted .mp3 exists
    transcript,  \* the .srt and _transcript.md exist
    clipFile,    \* [Outputs -> {"none", "ok", "partial"}]: files under clips/
    plan,        \* NoPlan, or the number of clips of *_clips.json
    scores,      \* the virality_score of each clip of the plan, in plan order
    folders,     \* the folders on Drive that publish can find or has created
    \* the arguments of the run
    intent, src, skipv, workers,
    \* the running process
    pc,
    mem,         \* the `state` dict the running stage works on
    bound,       \* main's local `state` has been assigned
    exc,         \* the stage whose exception is in flight, or "none"
    kind,        \* "config" if it reports a missing key or credential
    stage,       \* the stage function main is in
    trace,       \* the stage functions main has called, in order
    stage0,      \* state.json as it was when the running stage was called
    note,        \* the error notification main sent
    raised,      \* the exception main re-raised to its caller
    uploads,     \* the files this run has passed to upload_file
    dest,        \* clips_folder_id: the folder this run uploads into
    \* step_cut_all
    clipSt, res, cut_count, errors, tgq, unfinished, tg_done, sender, sending,
    sent,        \* the items handed to send_video, in order
    enq,         \* the items put on tg_queue, in order
    encFail,     \* the clips with an encoder pass that exited nonzero
    encRuns,     \* the outputs the encoder was invoked for, of the _cut_clip
                 \* calls whose result has not been collected yet
    lastSend,    \* what the latest send_video call did: "ok", "failed", "raise"
    \* history of the run
    ran,         \* stages whose work was executed in this run
    skipped,     \* stages that returned early as already done in this run
    step0,       \* the persisted stage when this run began
    repeat,      \* this run repeats the previous, completed run unchanged
    prevUp,      \* the files that previous run uploaded
    interrupted, \* the stage a crash cut short right before its _save_state
    resumeOf,    \* the interrupted stage this run is the re-run of
    top_clip,    \* the clip step_cut_draft has cut in this run, or 0
    \* calls of the helper functions
    seconds,     \* the argument of the two formatters, in ticks of 1/Unit s
    shown,       \* what _format_time returned, as a sequence of characters
    stamp,       \* what _format_srt_time returned
    clip,        \* the clip passed to _cut_clip: start_time and end_time
    cmd          \* the -ss, -ss and -t values _cut_clip computed from it

dirv == <<disk, torn, video, audio, transcript, clipFile, plan, scores, folders>>
argv == <<intent, src, skipv, workers>>
ctlv == <<pc, mem, bound, exc, kind>>
callv == <<stage, trace, stage0>>
errv == <<note, raised>>
cutv == <<clipSt, res, cut_count, errors, tgq, unfinished, tg_done, sender, sending,
          sent, enq, encFail, encRuns, lastSend>>
logv == <<ran, skipped>>
runv == <<step0, repeat, prevUp, interrupted, resumeOf, top_clip>>
fnv == <<seconds, shown, stamp, clip, cmd>>
vars == <<dirv, argv, ctlv, callv, errv, uploads, dest, cutv, logv, runv, fnv>>

\* ---- checkpoint records -------------------------------------------------
\* _load_state of a missing state.json: the empty dict
EmptyState == [step |-> "none", drive_parent_id |-> "absent", local_source |-> "absent",
               clips_cut |-> Absent]

NoExc == [at |-> "none", len |-> 0]
NoFolder == <<"none", "none">>
NoNote == [name |-> "none", len |-> 0]

\* the process has returned, propagated an exception, or died
Ended == {"done", "raised", "crashed"}

\* ---- small helpers ------------------------------------------------------
Min(a, b) == IF a < b THEN a ELSE b

\* an exception leaves the running stage and reaches main's except clause
Raise(at, k) ==
    /\ pc' = "except"
    /\ exc' = at
    /\ kind' = k

\* main calls a stage function
Call(stg) ==
    /\ pc' = stg
    /\ stage' = stg
    /\ trace' = Append(trace, stg)
    /\ stage0' = disk

\* a main that publishes after every step_cut_all
AfterStageCutUploads(stg, i) ==
    CASE stg = "ingest" -> "d_transcribe"
      [] stg = "transcribe" -> IF i = "transcribe_only" THEN "done" ELSE "d_dispatch"
      [] stg = "cut" -> "d_upload"
      [] OTHER -> "done"

\* where main continues when a stage function returns
AfterStage(stg, i) ==
    CASE stg = "ingest" -> "d_transcribe"
      [] stg = "transcribe" -> IF i = "transcribe_only" THEN "done" ELSE "d_dispatch"
      [] stg = "draft" -> "done"
      [] stg = "cut" -> IF i = "cut_only" THEN "done" ELSE "d_upload"
      [] OTHER -> "done"

\* the stage function returns `st` to main
Return(st) ==
    /\ pc' = AfterStage(stage, intent)
    /\ mem' = st
    /\ bound' = TRUE

\* the `if state.get("step") in (...)` / os.path.exists test of both ingests
AlreadyIngested(st, videoExists) ==
    /\ st.step \in {"downloaded", "transcribed", "clips_identified", "cut", "uploaded"}
    /\ videoExists

\* a step_transcribe that also returns early when the transcript files exist
TranscriptPresent(st) ==
    st.step \in {"transcribed", "clips_identified", "cut", "uploaded"} \/ transcript

\* the early return of step_transcribe
AlreadyTranscribed(st) ==
    st.step \in {"transcribed", "clips_identified", "cut", "uploaded"}

\* state.update(...) of step_local_ingest
LocalIngestState(st) ==
    [st EXCEPT !.step = "downloaded", !.drive_parent_id = "None", !.local_source = "set"]

\* state.update(...) of step_download
DownloadState(st) ==
    [st EXCEPT !.step = "downloaded", !.drive_parent_id = "set"]

\* state.update(...) of step_transcribe
TranscribeState(st) == [st EXCEPT !.step = "transcribed"]

\* state["step"] = "cut"; state["clips_cut"] = cut_count
CutState(st, n) == [st EXCEPT !.step = "cut", !.clips_cut = n]

\* a publish that returns the checkpoint without marking it uploaded
UploadStateUnmarked(st) == st

\* state["step"] = "uploaded"
UploadState(st) == [st EXCEPT !.step = "uploaded"]

\* ---- initial state: an empty working directory, no process --------------
NoClip == [start_time |-> 0, end_time |-> 0]
NoCmd == [pre_seek |-> 0 - 1, fine_seek |-> 0 - 1, duration |-> 0]

\* no helper function has been called
NoCalls ==
    /\ seconds = 0 /\ shown = <<>> /\ stamp = <<>>
    /\ clip = NoClip /\ cmd = NoCmd

NoProcess ==
    /\ pc = "idle" /\ stage = "none"
    /\ intent = "full" /\ src = "local" /\ skipv = FALSE /\ workers = 1
    /\ mem = EmptyState /\ bound = FALSE
    /\ exc = "none" /\ kind = "none" /\ note = NoNote /\ raised = NoExc
    /\ trace = <<>> /\ stage0 = EmptyState
    /\ uploads = {} /\ dest = NoFolder
    /\ clipSt = [c \in Clips |-> "idle"]
    /\ res = [c \in Clips |-> <<FALSE, FALSE>>]
    /\ cut_count = 0 /\ errors = <<>>
    /\ tgq = <<>> /\ unfinished = 0 /\ tg_done = FALSE
    /\ sender = "none" /\ sending = <<>>
    /\ sent = <<>> /\ enq = <<>> /\ encFail = {} /\ encRuns = {} /\ lastSend = "none"
    /\ ran = {} /\ skipped = {}
    /\ step0 = "none" /\ repeat = FALSE /\ prevUp = {}
    /\ interrupted = "none" /\ resumeOf = "none" /\ top_clip = 0

Init ==
    /\ disk = EmptyState /\ torn = FALSE
    /\ video = FALSE /\ audio = FALSE /\ transcript = FALSE
    /\ clipFile = [o \in Outputs |-> "none"]
    /\ plan = NoPlan /\ scores = <<>>
    /\ folders = {}
    /\ NoProcess
    /\ NoCalls

\* ---- main(): a new run --------------------------------------------------
\* the process starts: nothing of an earlier process is left in memory
Start(i, s, v, w) ==
    /\ intent' = i /\ src' = s /\ skipv' = v /\ workers' = w
    /\ pc' = "ingest" /\ stage' = "ingest" /\ stage0' = disk
    /\ trace' = <<"ingest">>
    /\ mem' = EmptyState /\ bound' = FALSE
    /\ exc' = "none" /\ kind' = "none" /\ note' = NoNote /\ raised' = NoExc
    /\ uploads' = {} /\ dest' = NoFolder
    /\ clipSt' = [c \in Clips |-> "idle"]
    /\ res' = [c \in Clips |-> <<FALSE, FALSE>>]
    /\ cut_count' = 0 /\ errors' = <<>>
    /\ tgq' = <<>> /\ unfinished' = 0 /\ tg_done' = FALSE
    /\ sender' = "none" /\ sending' = <<>>
    /\ sent' = <<>> /\ enq' = <<>> /\ encFail' = {} /\ encRuns' = {} /\ lastSend' = "none"
    /\ ran' = {} /\ skipped' = {}
    /\ step0' = disk.step
    /\ interrupted' = "none" /\ top_clip' = 0
    /\ UNCHANGED dirv

\* --no-vertical and --workers are read only where main calls a cut stage:
\* a run that does not get there, or an intent that does not use the flag,
\* is the same run for every value of it
ArgsUsed(i, v, w) ==
    /\ i \in {"transcribe_only", "upload_only"} => (~v /\ w = 1)
    /\ i = "draft" => w = 1
    /\ i = "full" => (disk.step \in {"clips_identified", "cut"} \/ (~v /\ w = 1))

\* the memory of a process that has ended
Gone ==
    /\ stage' = "none" /\ trace' = <<>>
    /\ mem' = EmptyState /\ bound' = FALSE
    /\ exc' = "none" /\ kind' = "none" /\ note' = NoNote /\ raised' = NoExc
    /\ uploads' = {} /\ dest' = NoFolder
    /\ clipSt' = [c \in Clips |-> "idle"]
    /\ res' = [c \in Clips |-> <<FALSE, FALSE>>]
    /\ cut_count' = 0 /\ errors' = <<>>
    /\ tgq' = <<>> /\ unfinished' = 0 /\ tg_done' = FALSE
    /\ sender' = "none" /\ sending' = <<>>
    /\ sent' = <<>> /\ enq' = <<>> /\ encFail' = {} /\ encRuns' = {} /\ lastSend' = "none"
    /\ ran' = {} /\ skipped' = {}
    /\ step0' = "none" /\ top_clip' = 0

\* the operator starts the driver with an intent, a source, --no-vertical
\* and --workers; main calls the ingest stage first
main(i, s, v, w) ==
    /\ pc = "idle"
    /\ ArgsUsed(i, v, w)
    /\ Start(i, s, v, w)
    /\ repeat' = FALSE /\ prevUp' = {} /\ resumeOf' = "none"
    /\ UNCHANGED fnv

\* the operator runs the same command again right after it completed
main_again ==
    /\ pc = "done"
    /\ Start(intent, src, skipv, workers)
    /\ repeat' = TRUE /\ prevUp' = uploads /\ resumeOf' = "none"
    /\ UNCHANGED fnv

\* the operator runs the same command again after the process died
main_resume ==
    /\ pc = "crashed"
    /\ Start(intent, src, skipv, workers)
    /\ repeat' = FALSE /\ prevUp' = {} /\ resumeOf' = interrupted
    /\ UNCHANGED fnv

\* the process is gone; what is left is the working directory
exit ==
    /\ pc \in Ended
    /\ pc' = "idle"
    /\ intent' = "full" /\ src' = "local" /\ skipv' = FALSE /\ workers' = 1
    /\ Gone
    /\ stage0' = EmptyState
    /\ repeat' = FALSE /\ prevUp' = {}
    /\ interrupted' = "none" /\ resumeOf' = "none"
    /\ UNCHANGED dirv
    /\ UNCHANGED fnv

\* ---- Step 0: step_local_ingest ------------------------------------------
step_local_ingest ==
    /\ pc = "ingest" /\ src = "local"
    /\ \E localOk \in BOOLEAN :
        IF ~localOk \/ torn
        THEN \* FileNotFoundError, or json.load fails on a torn state.json
             /\ Raise("ingest", "other")
             /\ UNCHANGED <<video, mem, bound, logv>>
        ELSE IF AlreadyIngested(disk, video)
        THEN /\ Return(disk)
             /\ skipped' = skipped \cup {"ingest"}
             /\ UNCHANGED <<video, exc, kind, ran>>
        ELSE /\ video' = TRUE
             /\ mem' = LocalIngestState(disk)
             /\ pc' = "save_open"
             /\ ran' = ran \cup {"ingest"}
             /\ UNCHANGED <<bound, exc, kind, skipped>>
    /\ UNCHANGED <<disk, torn, audio, transcript, clipFile, plan, scores, folders>>
    /\ UNCHANGED <<argv, callv, errv, uploads, dest, cutv, runv>>
    /\ UNCHANGED fnv

\* ---- Step 1: step_download ----------------------------------------------
step_download ==
    /\ pc = "ingest" /\ src = "drive"
    /\ \E out \in {"auth_fail", "api_fail", "dl_fail", "ok"}, left \in BOOLEAN :
        IF out \in {"auth_fail", "api_fail"} \/ torn
        THEN \* authenticate (no credentials) or the metadata calls fail,
             \* before _load_state; or _load_state fails
             /\ ~left
             /\ Raise("ingest", IF out = "auth_fail" THEN "config" ELSE "other")
             /\ UNCHANGED <<video, mem, bound, logv>>
        ELSE IF AlreadyIngested(disk, video)
        THEN /\ ~left /\ out = "ok"
             /\ Return(disk)
             /\ skipped' = skipped \cup {"ingest"}
             /\ UNCHANGED <<video, exc, kind, ran>>
        ELSE IF out = "dl_fail"
        THEN \* download_file raises; the destination may have been created
             /\ video' = (video \/ left)
             /\ Raise("ingest", "other")
             /\ ran' = ran \cup {"ingest"}
             /\ UNCHANGED <<mem, bound, skipped>>
        ELSE /\ ~left
             /\ video' = TRUE
             /\ mem' = DownloadState(disk)
             /\ pc' = "save_open"
             /\ ran' = ran \cup {"ingest"}
             /\ UNCHANGED <<bound, exc, kind, skipped>>
    /\ UNCHANGED <<disk, torn, audio, transcript, clipFile, plan, scores, folders>>
    /\ UNCHANGED <<argv, callv, errv, uploads, dest, cutv, runv>>
    /\ UNCHANGED fnv

\* ---- _save_state: open(path, "w") truncates, json.dump writes -----------
save_state_open ==
    /\ pc = "save_open"
    /\ torn' = TRUE
    /\ pc' = "save_dump"
    /\ UNCHANGED <<disk, video, audio, transcript, clipFile, plan, scores, folders>>
    /\ UNCHANGED <<argv, mem, bound, exc, kind, callv, errv, uploads, dest, cutv, logv, runv>>
    /\ UNCHANGED fnv

\* json.dump completes and the stage function returns; the locals of
\* step_cut_all (pool, queue, sender thread, counters) are gone with it
\* a stage whose code after _save_state raises
save_state_dump_raises ==
    /\ pc = "save_dump"
    /\ disk' = mem
    /\ torn' = FALSE
    /\ Raise(stage, "other")
    /\ UNCHANGED <<video, audio, transcript, clipFile, plan, scores, folders>>
    /\ UNCHANGED <<argv, mem, bound, callv, errv, uploads, dest, cutv, logv, runv>>
    /\ UNCHANGED fnv

\* json.dump(state, f) and the close; what follows in every stage is a
\* notification, which does not raise, and `return state`
save_state_dump ==
    /\ pc = "save_dump"
    /\ disk' = mem
    /\ torn' = FALSE
    /\ Return(mem)
    /\ IF stage = "cut"
       THEN /\ clipSt' = [c \in Clips |-> "idle"]
            /\ res' = [c \in Clips |-> <<FALSE, FALSE>>]
            /\ cut_count' = 0 /\ errors' = <<>>
            /\ tgq' = <<>> /\ unfinished' = 0 /\ tg_done' = FALSE
            /\ sender' = "none" /\ sending' = <<>>
            /\ sent' = <<>> /\ enq' = <<>> /\ encFail' = {} /\ encRuns' = {} /\ lastSend' = "none"
       ELSE UNCHANGED cutv
    /\ UNCHANGED <<video, audio, transcript, clipFile, plan, scores, folders>>
    /\ UNCHANGED <<argv, exc, kind, callv, errv, uploads, dest, logv, runv>>
    /\ UNCHANGED fnv

\* ---- main(): `if state.get("step") == "downloaded" or args.transcribe_only`
NeedsTranscribe(st, i) == st.step = "downloaded" \/ i = "transcribe_only"

main_transcribe ==
    /\ pc = "d_transcribe"
    /\ IF NeedsTranscribe(mem, intent)
       THEN Call("transcribe")
       ELSE /\ pc' = "d_dispatch"
            /\ UNCHANGED callv
    /\ UNCHANGED <<dirv, argv, mem, bound, exc, kind, errv, uploads, dest, cutv, logv, runv>>
    /\ UNCHANGED fnv

\* ---- Step 2: step_transcribe --------------------------------------------
step_transcribe ==
    /\ pc = "transcribe"
    /\ IF AlreadyTranscribed(mem)
       THEN /\ Return(mem)
            /\ skipped' = skipped \cup {"transcribe"}
            /\ UNCHANGED <<audio, transcript, exc, kind, ran>>
       ELSE /\ UNCHANGED skipped
            /\ \E out \in {"ffmpeg_fail", "no_key", "api_error", "auth_fail",
                           "upload_fail", "ok"}, left \in BOOLEAN :
                CASE out = "ffmpeg_fail" ->
                       \* audio extraction runs only when the .mp3 is missing
                       /\ ~audio
                       /\ audio' = left
                       /\ Raise("transcribe", "other")
                       /\ ran' = ran \cup {"transcribe"}
                       /\ UNCHANGED <<transcript, mem, bound>>
                  [] out = "no_key" ->
                       \* the key is read after the audio extraction, which
                       \* runs when the .mp3 is missing
                       /\ ~left
                       /\ audio' = TRUE
                       /\ Raise("transcribe", "config")
                       /\ ran' = IF audio THEN ran ELSE ran \cup {"transcribe"}
                       /\ UNCHANGED <<transcript, mem, bound>>
                  [] out = "api_error" ->
                       /\ ~left
                       /\ audio' = TRUE
                       /\ Raise("transcribe", "other")
                       /\ ran' = ran \cup {"transcribe"}
                       /\ UNCHANGED <<transcript, mem, bound>>
                  [] out \in {"auth_fail", "upload_fail"} ->
                       \* the .srt and .md are written before authenticate()
                       /\ ~left
                       /\ out = "upload_fail" => mem.drive_parent_id = "set"
                       /\ audio' = TRUE /\ transcript' = TRUE
                       /\ Raise("transcribe", IF out = "auth_fail" THEN "config" ELSE "other")
                       /\ ran' = ran \cup {"transcribe"}
                       /\ UNCHANGED <<mem, bound>>
                  [] OTHER ->
                       /\ ~left
                       /\ audio' = TRUE /\ transcript' = TRUE
                       /\ mem' = TranscribeState(mem)
                       /\ pc' = "save_open"
                       /\ ran' = ran \cup {"transcribe"}
                       /\ UNCHANGED <<bound, exc, kind>>
    /\ UNCHANGED <<disk, torn, video, clipFile, plan, scores, folders>>
    /\ UNCHANGED <<argv, callv, errv, uploads, dest, cutv, runv>>
    /\ UNCHANGED fnv

\* ---- main(): the branches on the intent flags and on state["step"] ------
\* a driver whose full pipeline goes on to cut as soon as there is a transcript
DispatchCutsTranscribed(st, i) ==
    CASE i = "draft" -> "draft"
      [] i = "upload_only" -> "upload"
      [] i \in {"cut_and_upload", "cut_only"} -> "cut"
      [] OTHER -> IF st.step \in {"transcribed", "clips_identified", "cut"} THEN "cut"
                  ELSE "done"

Dispatch(st, i) ==
    CASE i = "draft" -> "draft"
      [] i = "upload_only" -> "upload"
      [] i \in {"cut_and_upload", "cut_only"} -> "cut"
      [] OTHER -> IF st.step = "transcribed" THEN "done"
                  ELSE IF st.step \in {"clips_identified", "cut"} THEN "cut"
                  ELSE "done"

main_dispatch ==
    /\ pc = "d_dispatch"
    /\ IF Dispatch(mem, intent) = "done"
       THEN /\ pc' = "done"
            /\ UNCHANGED callv
       ELSE Call(Dispatch(mem, intent))
    /\ UNCHANGED <<dirv, argv, mem, bound, exc, kind, errv, uploads, dest, cutv, logv, runv>>
    /\ UNCHANGED fnv

\* step_upload(work_dir, state) after step_cut_all returned
main_upload ==
    /\ pc = "d_upload"
    /\ Call("upload")
    /\ UNCHANGED <<dirv, argv, mem, bound, exc, kind, errv, uploads, dest, cutv, logv, runv>>
    /\ UNCHANGED fnv

\* ---- main(): except Exception as e --------------------------------------
\* str(e), not truncated
ErrorTextWhole(len) == len

\* str(e)[:500]
ErrorText(len) == Min(len, ErrTrunc)

\* video_name = "Unknown"; try: video_name = state.get("video_name", "Unknown")
ErrorName(isBound) == IF isBound THEN "video_name" ELSE "Unknown"

\* len is the length of str(e)
main_except ==
    /\ pc = "except"
    /\ \E len \in MsgLens :
        /\ note' = [name |-> ErrorName(bound), len |-> ErrorText(len)]
        /\ raised' = [at |-> exc, len |-> len]
    /\ pc' = "raised"
    /\ UNCHANGED <<dirv, argv, mem, bound, exc, kind, callv, uploads, dest, cutv, logv, runv>>
    /\ UNCHANGED fnv


\* ---- Step 4: _cut_clip ---------------------------------------------------
\* the encoder exits 0, or nonzero
EncOutcomes == {"ok", "fail"}

\* `if not os.path.exists(path)`: the encoder runs only for a missing output
EncoderInvoked(f) == f = "none"

\* the output file after the pass
EncodeFile(f, out) ==
    IF ~EncoderInvoked(f) THEN f
    ELSE IF out = "ok" THEN "ok" ELSE "none"

\* the pass did not hit `if result.returncode != 0`
PassOk(f, out) == ~EncoderInvoked(f) \/ out = "ok"

\* the (horiz_path, vert_path) that _cut_clip returns, as (is not None) flags
CutClipResult(hOk, vOk, skipVertical) ==
    IF ~hOk THEN <<FALSE, FALSE>>
    ELSE IF skipVertical THEN <<TRUE, FALSE>>
    ELSE <<TRUE, vOk>>

\* the vertical pass is reached
VerticalRuns(hOk, skipVertical) == hOk /\ ~skipVertical

\* a loop body that counts every completed future as a cut clip
CutSucceededAlways(r) == TRUE

\* `if h_path:` of step_cut_draft and step_cut_all
CutSucceeded(r) == r[1]

\* an existing output is not re-encoded, so its outcome is not a choice
Outcomes(f, reached) == IF reached /\ EncoderInvoked(f) THEN EncOutcomes ELSE {"ok"}

\* _cut_clip(video_path, clip, output_dir, skip_vertical) on clip c, with the
\* exit statuses ho and vo of the two encoder passes: the clip files it leaves
CutClipFiles(cf, c, ho, vo, skipVertical) ==
    LET hOk == PassOk(cf[<<c, "h">>], ho) IN
    [cf EXCEPT ![<<c, "h">>] = EncodeFile(cf[<<c, "h">>], ho),
               ![<<c, "v">>] = IF VerticalRuns(hOk, skipVertical)
                               THEN EncodeFile(cf[<<c, "v">>], vo)
                               ELSE cf[<<c, "v">>]]

\* ... and the (horiz_path, vert_path) it returns
CutClipReturn(cf, c, ho, vo, skipVertical) ==
    LET hOk == PassOk(cf[<<c, "h">>], ho) IN
    CutClipResult(hOk, PassOk(cf[<<c, "v">>], vo), skipVertical)

\* an encoder pass of the call exited nonzero
CutClipFailed(cf, c, ho, vo, skipVertical) ==
    LET hOk == PassOk(cf[<<c, "h">>], ho) IN
    \/ ~hOk
    \/ VerticalRuns(hOk, skipVertical) /\ ~PassOk(cf[<<c, "v">>], vo)

\* a _cut_clip that runs the encoder whether or not the output exists
CutClipRunsAlways(cf, c, ho, skipVertical) ==
    {<<c, "h">>} \cup
    {o \in {<<c, "v">>} : VerticalRuns(ho = "ok", skipVertical)}

\* the outputs of clip c for which the call runs the encoder
CutClipRuns(cf, c, ho, skipVertical) ==
    {o \in {<<c, "h">>} : EncoderInvoked(cf[o])} \cup
    {o \in {<<c, "v">>} : /\ VerticalRuns(PassOk(cf[<<c, "h">>], ho), skipVertical)
                          /\ EncoderInvoked(cf[o])}

\* the exit statuses a call can meet: a pass that is skipped has none
PassOutcomes(cf, c, skipVertical) ==
    {o \in EncOutcomes \X EncOutcomes :
        /\ o[1] \in Outcomes(cf[<<c, "h">>], TRUE)
        /\ o[2] \in Outcomes(cf[<<c, "v">>],
                             VerticalRuns(PassOk(cf[<<c, "h">>], o[1]), skipVertical))}

\* ---- Step 4a: step_cut_draft --------------------------------------------
\* clips[0] of the plan as loaded, with no sort
TopClipUnsorted(sc) == 1

\* sorted(clips, key=virality_score, reverse=True)[0]: the sort is stable, so
\* of several clips with the highest score the first of the plan is on top
TopClip(sc) ==
    CHOOSE t \in 1..Len(sc) :
        /\ \A j \in 1..Len(sc) : sc[j] <= sc[t]
        /\ \A j \in 1..(t - 1) : sc[j] < sc[t]

\* a draft cut that records the stage as cut in the state it returns
DraftStateMarked(st) == [st EXCEPT !.step = "cut"]

\* `return state` of step_cut_draft: the dict it was given, no key assigned
DraftState(st) == st

step_cut_draft ==
    /\ pc = "draft"
    /\ IF plan = NoPlan
       THEN /\ Raise("draft", "other")
            /\ UNCHANGED <<clipFile, mem, bound, ran, top_clip>>
       ELSE IF plan = 0
       THEN /\ Return(DraftState(mem))
            /\ UNCHANGED <<clipFile, exc, kind, ran, top_clip>>
       ELSE /\ top_clip' = TopClip(scores)
            /\ \E o \in PassOutcomes(clipFile, TopClip(scores), skipv) :
                clipFile' = CutClipFiles(clipFile, TopClip(scores), o[1], o[2], skipv)
            /\ Return(DraftState(mem))
            /\ ran' = ran \cup {"draft"}
            /\ UNCHANGED <<exc, kind>>
    /\ UNCHANGED <<disk, torn, video, audio, transcript, plan, scores, folders>>
    /\ UNCHANGED <<argv, callv, errv, uploads, dest, cutv, skipped>>
    /\ UNCHANGED <<step0, repeat, prevUp, interrupted, resumeOf>>
    /\ UNCHANGED fnv

\* ---- Step 4b: step_cut_all ----------------------------------------------
\* _load_clips, the Telegram sender thread is started, the clips are
\* submitted to the ThreadPoolExecutor
\* a stage that goes on with whatever list was loaded
EmptyPlanIgnored(n) == FALSE

\* `if not clips:` of step_cut_all, for a plan file of n clips
EmptyPlan(n) == n = 0

step_cut_all ==
    /\ pc = "cut"
    /\ IF plan = NoPlan
       THEN /\ Raise("cut", "other")
            /\ UNCHANGED <<mem, bound, clipSt, sender, ran>>
       ELSE IF EmptyPlan(plan)
       THEN /\ Return(mem)
            /\ UNCHANGED <<exc, kind, clipSt, sender, ran>>
       ELSE /\ clipSt' = [c \in Clips |-> IF c <= plan THEN "queued" ELSE "idle"]
            /\ sender' = "waiting"
            /\ pc' = "cutting"
            /\ ran' = ran \cup {"cut"}
            /\ UNCHANGED <<mem, bound, exc, kind>>
    /\ UNCHANGED <<dirv, argv, callv, errv, uploads, dest, skipped, runv>>
    /\ UNCHANGED <<res, cut_count, errors, tgq, unfinished, tg_done, sending, sent, enq,
                   encFail, encRuns, lastSend>>
    /\ UNCHANGED fnv

\* the clips a pool thread is working on
Running == {c \in Clips : clipSt[c] = "running"}

\* a pool that starts a thread for every submitted clip
PoolUnbounded(running, w) == TRUE

\* ThreadPoolExecutor(max_workers=max_workers): a submitted call starts only
\* on one of the pool's max_workers threads that is idle
PoolHasIdleThread(running, w) == Cardinality(running) < w

\* a pool thread takes the next submitted clip (the pool's work queue is FIFO
\* and the pool has at most max_workers threads)
worker_start(c) ==
    /\ pc = "cutting"
    /\ clipSt[c] = "queued"
    /\ \A d \in Clips : d < c => clipSt[d] # "queued"
    /\ PoolHasIdleThread(Running, workers)
    /\ clipSt' = [clipSt EXCEPT ![c] = "running"]
    /\ UNCHANGED <<dirv, argv, ctlv, callv, errv, uploads, dest, logv, runv>>
    /\ UNCHANGED <<res, cut_count, errors, tgq, unfinished, tg_done, sender, sending,
                   sent, enq, encFail, encRuns, lastSend>>
    /\ UNCHANGED fnv

\* _cut_one: the thread's _cut_clip call returns and the future completes
worker_cut(c) ==
    /\ pc = "cutting"
    /\ clipSt[c] = "running"
    /\ \E o \in PassOutcomes(clipFile, c, skipv) :
        /\ clipFile' = CutClipFiles(clipFile, c, o[1], o[2], skipv)
        /\ res' = [res EXCEPT ![c] = CutClipReturn(clipFile, c, o[1], o[2], skipv)]
        /\ encFail' = IF CutClipFailed(clipFile, c, o[1], o[2], skipv)
                      THEN encFail \cup {c} ELSE encFail
        /\ encRuns' = encRuns \cup CutClipRuns(clipFile, c, o[1], skipv)
    /\ clipSt' = [clipSt EXCEPT ![c] = "finished"]
    /\ UNCHANGED <<disk, torn, video, audio, transcript, plan, scores, folders>>
    /\ UNCHANGED <<argv, ctlv, callv, errv, uploads, dest, logv, runv>>
    /\ UNCHANGED <<cut_count, errors, tgq, unfinished, tg_done, sender, sending, sent, enq,
                   lastSend>>
    /\ UNCHANGED fnv

\* the (path, caption) pairs the loop body puts on tg_queue for one result;
\* k is the cut_count of the caption "Clip k/total"
Items(c, r, k) ==
    IF r[2] THEN << <<c, "h", k>>, <<c, "v", k>> >> ELSE << <<c, "h", k>> >>

\* body of `for future in as_completed(futures)`: one finished clip
collect(c) ==
    /\ pc = "cutting"
    /\ clipSt[c] = "finished"
    /\ clipSt' = [clipSt EXCEPT ![c] = "collected"]
    /\ IF CutSucceeded(res[c])
       THEN /\ cut_count' = cut_count + 1
            /\ tgq' = tgq \o Items(c, res[c], cut_count + 1)
            /\ enq' = enq \o Items(c, res[c], cut_count + 1)
            /\ unfinished' = unfinished + Len(Items(c, res[c], cut_count + 1))
            /\ UNCHANGED errors
       ELSE /\ errors' = Append(errors, c)
            /\ UNCHANGED <<cut_count, tgq, enq, unfinished>>
    /\ UNCHANGED <<dirv, argv, ctlv, callv, errv, uploads, dest, logv, runv>>
    /\ encRuns' = {o \in encRuns : o[1] # c}
    /\ UNCHANGED <<res, tg_done, sender, sending, sent, encFail, lastSend>>
    /\ UNCHANGED fnv

\* a LIFO queue: the item put last is taken first
QueueGetLast(q) == <<q[Len(q)], SubSeq(q, 1, Len(q) - 1)>>

\* tg_queue.get(): the item taken and the queue left
QueueGet(q) == <<Head(q), Tail(q)>>

\* _telegram_sender: item = tg_queue.get(timeout=0.5)
telegram_sender_get ==
    /\ pc \notin Ended
    /\ sender = "waiting"
    /\ tgq # <<>>
    /\ sending' = <<QueueGet(tgq)[1]>>
    /\ tgq' = QueueGet(tgq)[2]
    /\ sender' = "sending"
    /\ UNCHANGED <<dirv, argv, ctlv, callv, errv, uploads, dest, logv, runv>>
    /\ UNCHANGED <<clipSt, res, cut_count, errors, unfinished, tg_done, sent, enq, encFail, encRuns, lastSend>>
    /\ UNCHANGED fnv

\* a sender thread that ends on a send that did not succeed
SenderStopsOnFailure(r) == IF r = "ok" THEN "waiting" ELSE "dead"

\* the sender thread after send_video: its return value is not looked at, an
\* exception ends the thread
SenderAfter(r) == IF r = "raise" THEN "dead" ELSE "waiting"

\* _telegram_sender: send_video(path, caption=caption); tg_queue.task_done()
\* send_video returns True or False, or raises (os.path.getsize, reading the
\* file), which ends the thread before task_done
telegram_sender_send ==
    /\ pc \notin Ended
    /\ sender = "sending"
    /\ sent' = sent \o sending
    /\ \E r \in {"ok", "failed", "raise"} :
        /\ lastSend' = r
        /\ sender' = SenderAfter(r)
        /\ IF r = "raise"
           THEN UNCHANGED <<unfinished, sending>>
           ELSE /\ sending' = <<>>
                /\ unfinished' = unfinished - 1
    /\ UNCHANGED <<dirv, argv, ctlv, callv, errv, uploads, dest, logv, runv>>
    /\ UNCHANGED <<clipSt, res, cut_count, errors, tgq, tg_done, enq, encFail, encRuns>>
    /\ UNCHANGED fnv

\* a sender that loops `while True`
SenderLoopForever(done, q) == FALSE

\* `while not tg_done.is_set() or not tg_queue.empty()` is over
SenderLoopEnds(done, q) == done /\ q = <<>>

\* _telegram_sender: `while not tg_done.is_set() or not tg_queue.empty()` ends
telegram_sender_exit ==
    /\ pc \notin Ended
    /\ sender = "waiting"
    /\ SenderLoopEnds(tg_done, tgq)
    /\ sender' = "exited"
    /\ UNCHANGED <<dirv, argv, ctlv, callv, errv, uploads, dest, logv, runv>>
    /\ UNCHANGED <<clipSt, res, cut_count, errors, tgq, unfinished, tg_done, sending,
                   sent, enq, encFail, encRuns, lastSend>>
    /\ UNCHANGED fnv

\* a join that does not wait
QueueNotJoined(n) == TRUE

\* tg_queue.join() returns when every put item has been task_done
QueueJoined(n) == n = 0

\* after the pool: tg_queue.join(); tg_done.set()
step_cut_all_join ==
    /\ pc = "cutting"
    /\ \A c \in Clips : clipSt[c] \in {"idle", "collected"}
    /\ QueueJoined(unfinished)
    /\ tg_done' = TRUE
    /\ pc' = "thread_join"
    /\ UNCHANGED <<dirv, argv, mem, bound, exc, kind, callv, errv, uploads, dest, logv, runv>>
    /\ UNCHANGED <<clipSt, res, cut_count, errors, tgq, unfinished, sender, sending,
                   sent, enq, encFail, encRuns, lastSend>>
    /\ UNCHANGED fnv

\* the sender thread has ended, or it is inside a send_video call, which can
\* outlast the 5 s of the join; a sender waiting in tg_queue.get(timeout=0.5)
\* is back at its loop test well within them
ThreadJoined(sndr) == sndr \in {"exited", "dead", "sending"}

\* tg_thread.join(timeout=5); state["step"] = "cut";
\* state["clips_cut"] = cut_count; then _save_state
step_cut_all_thread_join ==
    /\ pc = "thread_join"
    /\ ThreadJoined(sender)
    /\ mem' = CutState(mem, cut_count)
    /\ pc' = "save_open"
    /\ UNCHANGED <<dirv, argv, bound, exc, kind, callv, errv, uploads, dest, logv, runv>>
    /\ UNCHANGED cutv
    /\ UNCHANGED fnv

\* ---- Step 5: step_upload -------------------------------------------------
\* every output name in sorted() order: clip_01_x.mp4 < clip_01_x_vertical.mp4
\* < clip_02_y.mp4 ...
OutputSeq == [i \in 1..(2 * MaxClips) |->
                <<(i + 1) \div 2, IF i % 2 = 1 THEN "h" ELSE "v">>]

\* clip_files: the .mp4 files listed in clips/, sorted
ClipFiles(cf) == SelectSeq(OutputSeq, LAMBDA o : cf[o] # "none")

\* the files of the first k upload_file calls
Uploaded(cf, k) == {ClipFiles(cf)[j] : j \in 1..k}

\* the *_clips.json file, as an uploaded file
PlanFile == <<0, "plan">>

\* the folder names of publish, and where a folder can be on Drive: under the
\* video's parent folder, at the top level, or inside some other folder
FolderNames == {"clips", "video - Clips"}
Places == {"parent", "root", "other"}

\* `if parent_id:` of step_upload: the name, and the parent_id argument, of
\* its create_folder call
FolderName(parent_id) == IF parent_id = "set" THEN "clips" ELSE "video - Clips"
FolderParent(parent_id) == IF parent_id = "set" THEN "parent" ELSE "none"

\* create_folder: the files().list query; "and '<parent>' in parents" is added
\* only when a parent_id is given
Existing(fs, name, parent) ==
    {f \in fs : f[1] = name /\ (parent = "none" \/ f[2] = parent)}

\* create_folder: the folder it can return: existing[0] of the query's
\* result, or a new folder (at the top level without a parent_id)
CreateFolder(fs, name, parent) ==
    IF Existing(fs, name, parent) # {}
    THEN Existing(fs, name, parent)
    ELSE {<<name, IF parent = "none" THEN "root" ELSE parent>>}

\* upload_file has no existence check: every listed file is sent
step_upload ==
    /\ pc = "upload"
    /\ LET n == Len(ClipFiles(clipFile)) IN
       \E out \in {"auth_fail", "folder_fail", "fail", "ok"}, k \in 0..n,
          planUp \in BOOLEAN :
         IF out \in {"auth_fail", "folder_fail"}
         THEN \* authenticate() (no credentials) or create_folder raises
              /\ k = 0 /\ ~planUp
              /\ Raise("upload", IF out = "auth_fail" THEN "config" ELSE "other")
              /\ UNCHANGED <<uploads, dest, folders, mem, bound, ran>>
         ELSE /\ \E f \in CreateFolder(folders, FolderName(mem.drive_parent_id),
                                      FolderParent(mem.drive_parent_id)) :
                    /\ dest' = f
                    /\ folders' = folders \cup {f}
              /\ IF n = 0
                 THEN \* "No clip files to upload."
                      /\ k = 0 /\ ~planUp /\ out = "ok"
                      /\ Return(mem)
                      /\ UNCHANGED <<uploads, exc, kind, ran>>
                 ELSE /\ ran' = ran \cup {"upload"}
                      /\ uploads' = uploads \cup Uploaded(clipFile, k) \cup
                                    (IF planUp THEN {PlanFile} ELSE {})
                      /\ IF out = "fail"
                         THEN \* upload k+1 raises, or the plan upload or the
                              \* permission call after the last file
                              /\ planUp => (k = n /\ plan # NoPlan)
                              /\ Raise("upload", "other")
                              /\ UNCHANGED <<mem, bound>>
                         ELSE /\ k = n
                              /\ planUp = (plan # NoPlan)
                              /\ mem' = UploadState(mem)
                              /\ pc' = "save_open"
                              /\ UNCHANGED <<bound, exc, kind>>
    /\ UNCHANGED <<disk, torn, video, audio, transcript, clipFile, plan, scores>>
    /\ UNCHANGED <<argv, callv, errv, cutv, skipped, runv>>
    /\ UNCHANGED fnv

\* ---- the timestamp formatters ---------------------------------------------
\* the formatters take seconds as a number; the model counts ticks of 1/Unit s,
\* a power of two, so that every input is a value the code receives exactly
Unit == 4
MaxSeconds == 3726

\* durations of ten and of a hundred hours and more
LongTimes == {36000 + 3725, 360000 + 90}

Ticks == {t * Unit + f : t \in (0..MaxSeconds) \cup LongTimes, f \in 0..(Unit - 1)}

Digit == <<"0", "1", "2", "3", "4", "5", "6", "7", "8", "9">>

\* the format spec d: the decimal digits of n >= 0
RECURSIVE Dec(_)
Dec(n) == IF n < 10 THEN <<Digit[n + 1]>> ELSE Append(Dec(n \div 10), Digit[(n % 10) + 1])

\* the format specs 02d and 03d: zero-filled to a width of at least w
Pad(n, w) ==
    LET d == Dec(n) IN
    IF Len(d) >= w THEN d ELSE [i \in 1..(w - Len(d)) |-> "0"] \o d

\* a _format_time that always prints the hours
format_time_hours(sec) ==
    LET total == sec \div Unit
        h == total \div 3600
        remainder == total % 3600
        m == remainder \div 60
        s == remainder % 60
    IN Dec(h) \o <<":">> \o Pad(m, 2) \o <<":">> \o Pad(s, 2)

\* _format_time: int(seconds), two divmods, and the `if h > 0` choice
format_time(sec) ==
    LET total == sec \div Unit
        h == total \div 3600
        remainder == total % 3600
        m == remainder \div 60
        s == remainder % 60
    IN IF h > 0
       THEN Dec(h) \o <<":">> \o Pad(m, 2) \o <<":">> \o Pad(s, 2)
       ELSE Dec(m) \o <<":">> \o Pad(s, 2)

\* _format_srt_time: each field is taken from `seconds` itself with // and %,
\* then truncated by int()
format_srt_time(sec) ==
    LET h == (sec \div Unit) \div 3600
        m == ((sec % (3600 * Unit)) \div Unit) \div 60
        s == (sec % (60 * Unit)) \div Unit
        ms == ((sec % Unit) * 1000) \div Unit
    IN Pad(h, 2) \o <<":">> \o Pad(m, 2) \o <<":">> \o Pad(s, 2) \o <<",">> \o Pad(ms, 3)

call_format_time ==
    /\ shown = <<>>
    /\ shown' = format_time(seconds)
    /\ UNCHANGED <<seconds, stamp, clip, cmd>>
    /\ UNCHANGED <<dirv, argv, ctlv, callv, errv, uploads, dest, cutv, logv, runv>>

call_format_srt_time ==
    /\ stamp = <<>>
    /\ stamp' = format_srt_time(seconds)
    /\ UNCHANGED <<seconds, shown, clip, cmd>>
    /\ UNCHANGED <<dirv, argv, ctlv, callv, errv, uploads, dest, cutv, logv, runv>>

\* ---- the seek values of _cut_clip ------------------------------------------
MaxTime == 5

\* `start - 2`: two seconds, in ticks
SeekBack == 2 * Unit

\* start_time and end_time of a clip of the plan, in ticks: any two numbers
ClipTimes == (0 - Unit)..(MaxTime * Unit)

\* a _cut_clip that seeks two seconds early without the max(0, ...)
pre_seek_unclamped(start) == start - SeekBack

\* pre_seek = max(0, start - 2)
pre_seek(start) == IF start - SeekBack > 0 THEN start - SeekBack ELSE 0

\* _cut_clip up to the paths: duration, pre_seek and fine_seek, which become
\* the -t, first -ss and second -ss arguments of both encoder commands
cut_clip_seek ==
    /\ cmd = NoCmd
    /\ cmd' = [pre_seek |-> pre_seek(clip.start_time),
               fine_seek |-> clip.start_time - pre_seek(clip.start_time),
               duration |-> clip.end_time - clip.start_time]
    /\ UNCHANGED <<seconds, shown, stamp, clip>>
    /\ UNCHANGED <<dirv, argv, ctlv, callv, errv, uploads, dest, cutv, logv, runv>>

\* ---- the environment -----------------------------------------------------
\* the scores used in plans
Scores == {3, 5, 9}

\* across the runs of the driver the scores of a plan decide only which clip
\* is on top: one plan of n clips for each clip that can be
RankedPlans(n) == {[j \in 1..n |-> IF j = t THEN 9 ELSE 3] : t \in 1..n}

PlansOf(n) == IF n = 0 THEN {<<>>} ELSE RankedPlans(n)

\* the /clip skill writes (or rewrites) *_clips.json from the transcript,
\* between runs of the driver
SupplyPlan(n, sc) ==
    /\ pc = "idle"
    /\ transcript
    /\ <<n, sc>> # <<plan, scores>>
    /\ plan' = n /\ scores' = sc
    /\ UNCHANGED folders
    /\ UNCHANGED <<disk, torn, video, audio, transcript, clipFile>>
    /\ UNCHANGED <<argv, ctlv, callv, errv, uploads, dest, cutv, logv, runv>>
    /\ UNCHANGED fnv

\* an artifact disappears from the working directory (under /tmp) between
\* runs: the video link, the transcript files, or the files under clips/
LoseArtifact(a) ==
    /\ pc = "idle"
    /\ CASE a = "video" -> /\ video /\ video' = FALSE
                           /\ UNCHANGED <<transcript, clipFile>>
         [] a = "transcript" -> /\ transcript /\ transcript' = FALSE
                                /\ UNCHANGED <<video, clipFile>>
         [] OTHER -> /\ \E o \in Outputs : clipFile[o] # "none"
                     /\ clipFile' = [o \in Outputs |-> "none"]
                     /\ UNCHANGED <<video, transcript>>
    /\ UNCHANGED <<disk, torn, audio, plan, scores, folders>>
    /\ UNCHANGED <<argv, ctlv, callv, errv, uploads, dest, cutv, logv, runv>>
    /\ UNCHANGED fnv

\* the process dies (killed, power loss) at any point of a run; what is
\* left is the working directory, and the command the operator gave.
\* `interrupted` and `stage0` keep, for a death right before _save_state,
\* the stage it cut short and the checkpoint that stage had started from
crash ==
    /\ pc \notin (Ended \cup {"idle"})
    /\ pc' = "crashed"
    /\ interrupted' = IF pc = "save_open" THEN stage ELSE "none"
    /\ stage0' = IF pc = "save_open" THEN stage0 ELSE EmptyState
    /\ Gone
    /\ repeat' = FALSE /\ prevUp' = {} /\ resumeOf' = "none"
    /\ UNCHANGED <<dirv, argv>>
    /\ UNCHANGED fnv

\* ---- main --cut-only calls step_cut_all ---------------------------------
\* the checkpoint of a transcribed local video
Transcribed == TranscribeState(LocalIngestState(EmptyState))

\* a run with --cut-only on a transcribed video, at `state = step_cut_all(...)`:
\* any plan file, any flags, any clip files left by earlier runs
InitCut ==
    /\ disk = Transcribed /\ torn = FALSE
    /\ video = TRUE /\ audio = TRUE /\ transcript = TRUE
    /\ clipFile \in [Outputs -> {"none", "ok"}]
    /\ plan \in {NoPlan} \cup (0..MaxClips)
    /\ scores = [j \in 1..plan |-> 3]
    /\ folders = {}
    /\ \A o \in Outputs : clipFile[o] # "none" => o[1] <= plan
    /\ \A c \in Clips : clipFile[<<c, "v">>] # "none" => clipFile[<<c, "h">>] # "none"
    /\ intent = "cut_only" /\ src = "local"
    /\ skipv \in BOOLEAN /\ workers \in 1..MaxWorkers
    /\ pc = "cut" /\ stage = "cut"
    /\ mem = Transcribed /\ bound = TRUE
    /\ exc = "none" /\ kind = "none" /\ note = NoNote /\ raised = NoExc
    /\ trace = <<"ingest", "cut">> /\ stage0 = Transcribed
    /\ uploads = {} /\ dest = NoFolder
    /\ clipSt = [c \in Clips |-> "idle"]
    /\ res = [c \in Clips |-> <<FALSE, FALSE>>]
    /\ cut_count = 0 /\ errors = <<>>
    /\ tgq = <<>> /\ unfinished = 0 /\ tg_done = FALSE
    /\ sender = "none" /\ sending = <<>>
    /\ sent = <<>> /\ enq = <<>> /\ encFail = {} /\ encRuns = {} /\ lastSend = "none"
    /\ ran = {} /\ skipped = {"ingest"}
    /\ step0 = "transcribed" /\ repeat = FALSE /\ prevUp = {}
    /\ interrupted = "none" /\ resumeOf = "none" /\ top_clip = 0
    /\ NoCalls

\* a run with --draft on a transcribed video, at `step_cut_draft(...)`: any
\* plan file with any scores, either flag, any clip files of the plan's clips
InitDraft ==
    /\ disk = Transcribed /\ torn = FALSE
    /\ video = TRUE /\ audio = TRUE /\ transcript = TRUE
    /\ clipFile \in [Outputs -> {"none", "ok"}]
    /\ plan \in {NoPlan} \cup (0..MaxClips)
    /\ scores \in [1..plan -> Scores]
    /\ folders = {}
    /\ \A o \in Outputs : clipFile[o] # "none" => o[1] <= plan
    /\ intent = "draft" /\ src = "local"
    /\ skipv \in BOOLEAN /\ workers = 1
    /\ pc = "draft" /\ stage = "draft"
    /\ mem = Transcribed /\ bound = TRUE
    /\ exc = "none" /\ kind = "none" /\ note = NoNote /\ raised = NoExc
    /\ trace = <<"ingest", "draft">> /\ stage0 = Transcribed
    /\ uploads = {} /\ dest = NoFolder
    /\ clipSt = [c \in Clips |-> "idle"]
    /\ res = [c \in Clips |-> <<FALSE, FALSE>>]
    /\ cut_count = 0 /\ errors = <<>>
    /\ tgq = <<>> /\ unfinished = 0 /\ tg_done = FALSE
    /\ sender = "none" /\ sending = <<>>
    /\ sent = <<>> /\ enq = <<>> /\ encFail = {} /\ encRuns = {} /\ lastSend = "none"
    /\ ran = {} /\ skipped = {"ingest"}
    /\ step0 = "transcribed" /\ repeat = FALSE /\ prevUp = {}
    /\ interrupted = "none" /\ resumeOf = "none" /\ top_clip = 0
    /\ NoCalls

\* the checkpoints a finished cut stage leaves, for either source
Ingested == {LocalIngestState(EmptyState), DownloadState(EmptyState)}

\* --upload-only on a working directory with a finished cut stage, main at
\* its dispatch; the Drive account holds any folders of the two names
InitPublish ==
    /\ plan \in 0..MaxClips
    /\ scores = [j \in 1..plan |-> 3]
    /\ \E st \in Ingested, n \in 0..plan :
          /\ disk = CutState(TranscribeState(st), n)
          /\ clipFile = [o \in Outputs |-> IF o[1] <= n THEN "ok" ELSE "none"]
          /\ src = IF st.drive_parent_id = "set" THEN "drive" ELSE "local"
    /\ torn = FALSE
    /\ video = TRUE /\ audio = TRUE /\ transcript = TRUE
    /\ folders \in SUBSET (FolderNames \X Places)
    /\ intent = "upload_only"
    /\ skipv = FALSE /\ workers = 1
    /\ pc = "d_dispatch" /\ stage = "ingest"
    /\ mem = disk /\ bound = TRUE
    /\ exc = "none" /\ kind = "none" /\ note = NoNote /\ raised = NoExc
    /\ trace = <<"ingest">> /\ stage0 = disk
    /\ uploads = {} /\ dest = NoFolder
    /\ clipSt = [c \in Clips |-> "idle"]
    /\ res = [c \in Clips |-> <<FALSE, FALSE>>]
    /\ cut_count = 0 /\ errors = <<>>
    /\ tgq = <<>> /\ unfinished = 0 /\ tg_done = FALSE
    /\ sender = "none" /\ sending = <<>>
    /\ sent = <<>> /\ enq = <<>> /\ encFail = {} /\ encRuns = {} /\ lastSend = "none"
    /\ ran = {} /\ skipped = {"ingest"}
    /\ step0 = "cut" /\ repeat = FALSE /\ prevUp = {}
    /\ interrupted = "none" /\ resumeOf = "none" /\ top_clip = 0
    /\ NoCalls

\* the formatters called on any time of Ticks
InitFormat ==
    /\ disk = EmptyState /\ torn = FALSE
    /\ video = FALSE /\ audio = FALSE /\ transcript = FALSE
    /\ clipFile = [o \in Outputs |-> "none"]
    /\ plan = NoPlan /\ scores = <<>>
    /\ folders = {}
    /\ NoProcess
    /\ seconds \in Ticks /\ shown = <<>> /\ stamp = <<>>
    /\ clip = NoClip /\ cmd = NoCmd

\* _cut_clip called on a clip with any start and end time
InitSeek ==
    /\ disk = EmptyState /\ torn = FALSE
    /\ video = FALSE /\ audio = FALSE /\ transcript = FALSE
    /\ clipFile = [o \in Outputs |-> "none"]
    /\ plan = NoPlan /\ scores = <<>>
    /\ folders = {}
    /\ NoProcess
    /\ seconds = 0 /\ shown = <<>> /\ stamp = <<>>
    /\ clip \in [start_time : ClipTimes, end_time : ClipTimes]
    /\ cmd = NoCmd

\* step_cut_all called on a working directory with no clip file yet, or with
\* every output of the plan already there
InitCutFair ==
    /\ InitCut
    /\ \/ \A o \in Outputs : clipFile[o] = "none"
       \/ \A o \in Outputs : (clipFile[o] = "ok") = (o[1] <= plan)

\* ---- specifications ------------------------------------------------------
Next ==
    \/ \E i \in Intents, s \in Sources, v \in BOOLEAN, w \in 1..MaxWorkers : main(i, s, v, w)
    \/ exit
    \/ step_local_ingest
    \/ step_download
    \/ save_state_open
    \/ save_state_dump
    \/ main_transcribe
    \/ step_transcribe
    \/ main_dispatch
    \/ main_upload
    \/ main_except
    \/ step_cut_draft
    \/ step_cut_all
    \/ \E c \in Clips : worker_start(c)
    \/ \E c \in Clips : worker_cut(c)
    \/ \E c \in Clips : collect(c)
    \/ telegram_sender_get
    \/ telegram_sender_send
    \/ telegram_sender_exit
    \/ step_cut_all_join
    \/ step_cut_all_thread_join
    \/ step_upload
    \/ \E n \in 0..MaxPlan : \E sc \in PlansOf(n) : SupplyPlan(n, sc)

Spec == Init /\ [][Next]_vars

\* the operator may repeat a completed command
NextAgain == Next \/ main_again

SpecAgain == Init /\ [][NextAgain]_vars

\* the process may die at any point, and the operator may re-run the command
NextCrash == Next \/ crash \/ main_resume

SpecCrash == Init /\ [][NextCrash]_vars

\* artifacts may disappear between runs
NextLoss == Next \/ \E a \in {"video", "transcript", "clips"} : LoseArtifact(a)

SpecLoss == Init /\ [][NextLoss]_vars

\* the two formatters, each called once on the same time
NextFormat == call_format_time \/ call_format_srt_time

SpecFormat == InitFormat /\ [][NextFormat]_vars

\* the seek computation of one _cut_clip call
NextSeek == cut_clip_seek

SpecSeek == InitSeek /\ [][NextSeek]_vars

\* a step in which no stage raises and no encoder pass fails
Succeeding(A) ==
    /\ A
    /\ pc' # "except"
    /\ encFail' = {}

\* the runs of the whole pipeline on a local video, up to the one that
\* publishes: the cut stage is run with --no-vertical and two workers
EndToEndRun(i, v, w) ==
    /\ i # "draft"
    /\ disk.step # "uploaded"
    /\ (i \in {"cut_and_upload", "cut_only"} \/
        (i = "full" /\ disk.step \in {"clips_identified", "cut"})) => (v /\ w = 2)
    /\ main(i, "local", v, w)

\* the whole pipeline with every collaborator succeeding; a plan of two clips
\* is supplied once the transcript exists
NextEndToEnd ==
    \/ \E i \in Intents, v \in BOOLEAN, w \in 1..MaxWorkers : Succeeding(EndToEndRun(i, v, w))
    \/ Succeeding(exit)
    \/ Succeeding(step_local_ingest)
    \/ Succeeding(save_state_open)
    \/ Succeeding(save_state_dump)
    \/ Succeeding(main_transcribe)
    \/ Succeeding(step_transcribe)
    \/ Succeeding(main_dispatch)
    \/ Succeeding(main_upload)
    \/ Succeeding(step_cut_all)
    \/ \E c \in Clips : Succeeding(worker_start(c))
    \/ \E c \in Clips : Succeeding(worker_cut(c))
    \/ \E c \in Clips : Succeeding(collect(c))
    \/ Succeeding(telegram_sender_get)
    \/ Succeeding(telegram_sender_send)
    \/ Succeeding(telegram_sender_exit)
    \/ Succeeding(step_cut_all_join)
    \/ Succeeding(step_cut_all_thread_join)
    \/ Succeeding(step_upload)
    \/ Succeeding(SupplyPlan(2, <<3, 3>>))

SpecEndToEnd == Init /\ [][NextEndToEnd]_vars

\* one --upload-only run from main's dispatch to its end
NextPublish ==
    \/ main_dispatch
    \/ step_upload
    \/ save_state_open
    \/ save_state_dump
    \/ main_except

SpecPublish == InitPublish /\ [][NextPublish]_vars

\* one call of step_cut_draft, to its return or its exception
NextDraft == step_cut_draft \/ main_except

SpecDraft == InitDraft /\ [][NextDraft]_vars

\* one call of step_cut_all, to its return or its exception
NextCut ==
    \/ step_cut_all
    \/ \E c \in Clips : worker_start(c)
    \/ \E c \in Clips : worker_cut(c)
    \/ \E c \in Clips : collect(c)
    \/ telegram_sender_get
    \/ telegram_sender_send
    \/ telegram_sender_exit
    \/ step_cut_all_join
    \/ step_cut_all_thread_join
    \/ save_state_open
    \/ save_state_dump
    \/ main_except

SpecCut == InitCut /\ [][NextCut]_vars

\* ---- a cut stage cut short while an encoder is writing -------------------
\* the outputs of clip c an encoder of its _cut_clip call may be writing: the
\* primary one if it is missing, the alternate one after a primary pass that
\* did not fail
BeingEncoded(cf, c, skipVertical) == CutClipRuns(cf, c, "ok", skipVertical)

\* the process and its encoder child die while the encoder (ffmpeg -y path)
\* is writing output o of a running clip: the file exists, incomplete; an
\* alternate pass was preceded by the primary pass of the same call
encoder_killed(c) ==
    /\ pc = "cutting"
    /\ clipSt[c] = "running"
    /\ \E o \in BeingEncoded(clipFile, c, skipv) :
        clipFile' = [CutClipFiles(clipFile, c, "ok", "fail", skipv) EXCEPT ![o] = "partial"]
    /\ pc' = "crashed"
    /\ interrupted' = "none"
    /\ stage0' = EmptyState
    /\ Gone
    /\ repeat' = FALSE /\ prevUp' = {} /\ resumeOf' = "none"
    /\ UNCHANGED <<disk, torn, video, audio, transcript, plan, scores, folders>>
    /\ UNCHANGED argv
    /\ UNCHANGED fnv

\* a first run with --cut-only on a transcribed video whose clips/ is empty
InitRecut ==
    /\ InitCut
    /\ plan >= 1
    /\ \A o \in Outputs : clipFile[o] = "none"

\* runs of --cut-only, each killed while encoding or left to finish, the
\* operator giving the same command again after a kill
NextRecut ==
    \/ NextCut
    \/ \E c \in Clips : encoder_killed(c)
    \/ main_resume
    \/ step_local_ingest
    \/ main_transcribe
    \/ main_dispatch

SpecRecut == InitRecut /\ [][NextRecut]_vars

\* a send_video call that returns, True or False
telegram_sender_send_returns ==
    /\ telegram_sender_send
    /\ lastSend' # "raise"

\* step_cut_all with every send attempt returning
NextCutReturns ==
    \/ step_cut_all
    \/ \E c \in Clips : worker_start(c)
    \/ \E c \in Clips : worker_cut(c)
    \/ \E c \in Clips : collect(c)
    \/ telegram_sender_get
    \/ telegram_sender_send_returns
    \/ telegram_sender_exit
    \/ step_cut_all_join
    \/ step_cut_all_thread_join
    \/ save_state_open
    \/ save_state_dump
    \/ main_except

\* the process is not stopped: while a thread can take a step, one does (an
\* encoder process that has been started exits)
SpecCutFair == InitCutFair /\ [][NextCutReturns]_vars /\ WF_vars(NextCutReturns)

\* the same, with send_video free to raise as well
SpecCutRaiseFair == InitCutFair /\ [][NextCut]_vars /\ WF_vars(NextCut)

\* ---- properties ----------------------------------------------------------
IsPrefix(s, t) == Len(s) <= Len(t) /\ \A j \in 1..Len(s) : s[j] = t[j]
Range(s) == {s[j] : j \in 1..Len(s)}
NoRepeats(s) == \A j, k \in 1..Len(s) : s[j] = s[k] => j = k

\* step_cut_all has finished its loop and its join and is saving the checkpoint
CutSaving == stage = "cut" /\ pc \in {"save_open", "save_dump"}

\* C1: across any sequence of driver runs, whatever their intents and
\* source, the persisted checkpoint stage never moves to an earlier value in
\* the order none < downloaded < transcribed < clips_identified < cut < uploaded
C1_StageNeverRegresses == [][Rank(disk'.step) >= Rank(disk.step)]_vars

\* C2: for a non-empty plan of N clips of which any subset has a failing
\* encoder invocation, every clip is attempted, successes + failed ids = N, the
\* checkpoint is saved with stage cut and clips_cut = successes; with exactly
\* one clip having a failing invocation there are N-1 successes and 1 failure
C2_BestEffortCut ==
    CutSaving =>
        /\ \A c \in 1..plan : clipSt[c] = "collected"
        /\ cut_count + Len(errors) = plan
        /\ mem.step = "cut" /\ mem.clips_cut = cut_count
        /\ Cardinality(encFail) = 1 => (cut_count = plan - 1 /\ Len(errors) = 1)

\* C3: the messaging collaborator sees the sends in exactly the order in
\* which the items were enqueued, one at a time, whatever the interleaving of
\* the workers and the sender and whichever worker finishes first
C3_SendsInEnqueueOrder ==
    /\ IsPrefix(sent, enq)
    /\ Len(sending) <= 1
    /\ sender = "sending" => IsPrefix(sent \o sending, enq)

\* a later clip of the plan was cut, enqueued and sent before an earlier one
C3_OutOfOrderFinish ==
    /\ Len(sent) >= 2
    /\ \E j, k \in 1..Len(sent) : j < k /\ sent[j][1] > sent[k][1]

\* C4: step_cut_all saves the checkpoint with stage cut only after every item
\* put on the queue has been taken and its send attempted exactly once: none
\* is dropped, duplicated or still pending
C4_SavedAfterDrain ==
    CutSaving =>
        /\ tgq = <<>> /\ sender # "sending"
        /\ sent = enq
        /\ NoRepeats(sent)

\* the checkpoint is being written after several items went through the queue
C4_SavingAfterSends == CutSaving /\ pc = "save_dump" /\ Len(sent) >= 2

\* C5: running a command a second time with identical inputs and no artifact
\* deleted makes no external call that repeats one of the first run, and
\* leaves the checkpoint stage as the first run left it
C5_SecondRunIdempotent ==
    (repeat /\ pc = "done") =>
        /\ uploads \cap prevUp = {}
        /\ disk.step = step0

\* the persisted stage is st or a later one
AtLeast(st) == Rank(disk.step) >= Rank(st)

\* some file exists under clips/
SomeClipFile == \E o \in Outputs : clipFile[o] # "none"

\* the clips whose primary-aspect output exists
PrimaryFiles == {c \in Clips : clipFile[<<c, "h">>] # "none"}

\* C6 (as stated): the persisted stage is backed by its artifacts: downloaded
\* or later implies the video file, transcribed or later the transcript
\* files, cut or later the cut output files
C6_StageReflectsArtifacts ==
    /\ AtLeast("downloaded") => video
    /\ AtLeast("transcribed") => transcript
    /\ AtLeast("cut") => SomeClipFile

\* C6 (amended): downloaded or later implies the video file, transcribed or
\* later the transcript files, uploaded implies some cut output file; stage cut
\* implies only that clips_cut is recorded, and a recorded clips_cut never
\* exceeds the number of clips whose primary output exists
C6_StageBackedByRecordedOutputs ==
    /\ AtLeast("downloaded") => video
    /\ AtLeast("transcribed") => transcript
    /\ disk.step = "uploaded" => SomeClipFile
    /\ disk.step = "cut" => disk.clips_cut >= 0
    /\ disk.clips_cut # Absent => Cardinality(PrimaryFiles) >= disk.clips_cut

\* stage cut is persisted with no clip cut and no file under clips/
C6_CutStageWithoutOutputs ==
    /\ disk.step = "cut" /\ disk.clips_cut = 0
    /\ ~SomeClipFile
    /\ pc = "done"

\* C7: if the process dies at any point during _save_state, state.json holds
\* either the complete prior checkpoint or the complete new one, and the next
\* _load_state returns one of the two
C7_SaveAtomic == pc = "crashed" => ~torn

\* C8: if the process dies after a stage's work has finished but before its
\* _save_state, the persisted checkpoint is still the prior one, and the next
\* run with the same intent executes that stage again instead of skipping it
C8_ResumeReexecutes ==
    /\ (pc = "crashed" /\ interrupted # "none") => (disk = stage0 /\ ~torn)
    /\ resumeOf # "none" => resumeOf \notin skipped
    /\ (resumeOf # "none" /\ pc = "done") => resumeOf \in ran

\* the run after a death right before step_transcribe's save has transcribed
\* again and completed
C8_TranscribeResumed ==
    /\ resumeOf = "transcribe" /\ pc = "done"
    /\ "transcribe" \in ran /\ disk.step = "transcribed"

\* C9: whenever a stage called by main raises, main sends an error
\* notification with the message cut to 500 characters and the video name
\* ("Unknown" when main holds no checkpoint), then re-raises the same
\* exception; the error is never swallowed, the stage is not retried and no
\* later stage runs
C9_ErrorReportedAndReraised ==
    /\ exc # "none" => (pc \in {"except", "raised"} /\ trace[Len(trace)] = exc)
    /\ pc = "except" => (note = NoNote /\ raised = NoExc)
    /\ pc = "raised" =>
        /\ exc # "none" /\ raised.at = exc
        /\ note.len = (IF raised.len > ErrTrunc THEN ErrTrunc ELSE raised.len)
        /\ note.name = (IF bound THEN "video_name" ELSE "Unknown")
        /\ NoRepeats(trace)
    /\ pc = "done" => (note = NoNote /\ raised = NoExc)

\* a stage after the first raised with a message longer than 500 characters
C9_LongErrorAfterIngest ==
    /\ pc = "raised" /\ raised.len > ErrTrunc
    /\ bound /\ Len(trace) >= 2

\* C10: a nonzero encoder exit status in either pass of a clip makes the cut
\* stage record the clip's id in the failed list and not count it as a
\* success, and the other clips are still processed
C10_EitherPassFailureRecorded ==
    /\ \A c \in encFail : clipSt[c] = "collected" => c \in Range(errors)
    /\ CutSaving => cut_count = plan - Cardinality(encFail)

\* the clip ids of a sequence of queue items
ClipIds(q) == [j \in 1..Len(q) |-> q[j][1]]

Ascending(s) == \A j, k \in 1..Len(s) : j < k => s[j] <= s[k]

\* C11: whatever the order in which the workers complete, the cut stage
\* reports the per-clip results (the "Clip k/total" captions it enqueues, the
\* FAILED ids it records) in ascending clip id order
C11_ReportedInIdOrder ==
    /\ Ascending(ClipIds(enq))
    /\ Ascending(errors)

\* C12: with persisted stage transcribed and the full-pipeline intent, main
\* returns without error and without calling cut or publish exactly when no
\* *_clips.json exists; once one exists the same command goes on to the cut stage
C12_PausedUntilPlanAppears ==
    (intent = "full" /\ step0 = "transcribed" /\ pc = "done") =>
        (plan = NoPlan <=> ({"cut", "upload"} \cap Range(trace) = {}))

\* C13: a configuration error (missing speech-service key, missing storage
\* credentials) is raised and reported before any stage work begins: a run
\* that ends with one has performed no ingest, audio extraction,
\* transcription or other stage work
C13_ConfigErrorBeforeWork == kind = "config" => ran = {}

\* C14: in the publish stage a failed upload of one file does not raise, and
\* the upload of every remaining file is still attempted: if the stage ends
\* by an exception after it began uploading, it is not for a clip file: every
\* listed clip file has been uploaded
C14_UploadFailureNotFatal ==
    (exc = "upload" /\ "upload" \in ran) => Range(ClipFiles(clipFile)) \subseteq uploads

\* C15: when the checkpoint says a stage is complete but the stage's artifact
\* is missing on disk, the next run detects it by file existence and re-runs
\* the stage instead of skipping it: a stage is skipped as already done only
\* when its artifact exists (the cut stage has no skip: _cut_clip tests each
\* output file)
C15_SkipOnlyWithArtifact ==
    /\ "ingest" \in skipped => video
    /\ "transcribe" \in skipped => transcript

\* C18: once the first ingest of a video has set the checkpoint's source
\* reference (the drive locator with its parent id, or the local source path),
\* no later run for the same video changes it
C18_SourceReferenceImmutable ==
    [][disk.drive_parent_id # "absent" =>
            /\ disk'.drive_parent_id = disk.drive_parent_id
            /\ disk'.local_source = disk.local_source]_vars

\* the stage functions main has called in this run
Called == Range(trace)

C19_DraftCutsTopScore ==
    /\ top_clip # 0 =>
        /\ top_clip \in 1..plan
        /\ \A j \in 1..plan : scores[j] <= scores[top_clip]
    /\ (pc = "done" /\ plan > 0) => top_clip # 0

\* the plan scored [3, 9, 5]: the draft has cut the second clip
C19_MiddleClipOnTop == scores = <<3, 9, 5>> /\ top_clip = 2 /\ pc = "done"

\* the clips of the plan whose _cut_clip returned a primary output
CutOk == {c \in 1..plan : res[c][1]}

\* C17: a send that reports failure is not retried, does not stop the sender
\* from forwarding the remaining items, and does not change the outcome of the
\* cut stage: the success count, the failed ids and the saved stage cut are
\* what the encoder results alone make them
C17_SendFailureHarmless ==
    /\ lastSend = "failed" => sender \in {"waiting", "sending", "exited"}
    /\ NoRepeats(sent \o (IF sender = "sending" THEN sending ELSE <<>>))
    /\ CutSaving =>
        /\ sent = enq
        /\ cut_count = Cardinality(CutOk)
        /\ Range(errors) = (1..plan) \ CutOk
        /\ mem.step = "cut" /\ mem.clips_cut = cut_count

\* the last of several sends reported failure, every item has been forwarded
\* and the cut checkpoint is being saved
C17_SavedAfterFailedSend ==
    CutSaving /\ lastSend = "failed" /\ Len(sent) >= 2 /\ cut_count >= 1

\* the folder the checkpoint determines: "clips" under the parent, or the
\* video's " - Clips" folder at the top level
Destination(st) ==
    IF st.drive_parent_id = "set" THEN <<"clips", "parent">>
    ELSE <<"video - Clips", "root">>

\* C20: publish uploads into the folder the checkpoint determines: the folder
\* named "clips" under drive_parent_id when that is set, otherwise the
\* top-level folder named after the video; and a folder of that name and
\* parent that exists is reused, never doubled.
C20_DestinationFromCheckpoint ==
    dest # NoFolder => dest = Destination(mem)

\* the fields of a formatted time: the text cut at every separator
RECURSIVE Split(_, _)
Split(text, seps) ==
    IF \A i \in 1..Len(text) : text[i] \notin seps THEN <<text>>
    ELSE LET k == CHOOSE i \in 1..Len(text) :
                    text[i] \in seps /\ \A j \in 1..(i - 1) : text[j] \notin seps
         IN <<SubSeq(text, 1, k - 1)>> \o Split(SubSeq(text, k + 1, Len(text)), seps)

\* the number a field of decimal digits denotes, or -1
RECURSIVE Val(_)
Val(field) ==
    IF field = <<>> \/ \E i \in 1..Len(field) : field[i] \notin Range(Digit) THEN 0 - 1
    ELSE LET d == CHOOSE n \in 0..9 : Digit[n + 1] = field[Len(field)] IN
         IF Len(field) = 1 THEN d
         ELSE 10 * Val(SubSeq(field, 1, Len(field) - 1)) + d

\* a field holds n, written with at least w digits and no more than needed
Shows(field, n, w) ==
    /\ Val(field) = n
    /\ Len(field) >= w
    /\ Len(field) > w => field[1] # "0"

C27_SeekSplitsStart ==
    (cmd # NoCmd /\ clip.start_time >= 0) =>
        /\ cmd.pre_seek >= 0
        /\ cmd.pre_seek >= clip.start_time - 2 * Unit
        /\ cmd.pre_seek = 0 \/ cmd.pre_seek = clip.start_time - 2 * Unit
        /\ cmd.fine_seek = clip.start_time - cmd.pre_seek
        /\ 0 <= cmd.fine_seek /\ cmd.fine_seek <= 2 * Unit
        /\ cmd.pre_seek + cmd.fine_seek = clip.start_time
        /\ cmd.duration = clip.end_time - clip.start_time

\* a clip starting at 1.25 s and ending at 5 s: the coarse seek is clamped to 0
C27_ClampedSeek ==
    /\ clip = [start_time |-> Unit + 1, end_time |-> 5 * Unit]
    /\ cmd = [pre_seek |-> 0, fine_seek |-> Unit + 1, duration |-> 4 * Unit - 1]

\* the order in which the pipeline persists its stages
StageChain ==
    {<<"none", "downloaded">>, <<"downloaded", "transcribed">>,
     <<"transcribed", "cut">>, <<"cut", "uploaded">>}

\* C22: from no checkpoint, local ingest, transcribe, a plan of two clips,
\* cut-all with two workers and no alternate-aspect cuts, then publish, all
\* succeeding: the run that publishes ends with persisted stage uploaded and
\* clips_cut = 2, having uploaded exactly the two clip files and the plan, and
\* the persisted stage has moved downloaded, transcribed, cut, uploaded.
C22_EndToEnd ==
    /\ []((pc = "done" /\ "upload" \in ran) =>
            /\ disk.step = "uploaded" /\ disk.clips_cut = 2
            /\ uploads = {<<1, "h">>, <<2, "h">>, PlanFile})
    /\ [][disk'.step # disk.step => <<disk.step, disk'.step>> \in StageChain]_vars

\* a --cut-and-upload run has cut both clips, published and returned
C22_CutAndUploadDone ==
    /\ pc = "done" /\ intent = "cut_and_upload"
    /\ trace = <<"ingest", "cut", "upload">>
    /\ ran = {"cut", "upload"}
    /\ step0 = "transcribed"
    /\ disk.step = "uploaded" /\ disk.clips_cut = 2
    /\ uploads = {<<1, "h">>, <<2, "h">>, PlanFile}

\* where main is once a stage function has returned
AfterReturn == {"d_transcribe", "d_dispatch", "d_upload", "done"}

\* C23: a stage function that raises leaves the persisted checkpoint exactly
\* as it was when the stage began; a stage writes the checkpoint at most once
\* per invocation and only after all of its work, right before it returns.
C23_RaiseLeavesCheckpoint ==
    /\ [](pc \in {"except", "raised"} => (disk = stage0 /\ ~torn))
    /\ [][(disk' # disk \/ torn' # torn) =>
            /\ pc \in {"save_open", "save_dump"}
            /\ disk = stage0
            /\ pc' \in {"save_dump"} \cup AfterReturn]_vars

\* publish has uploaded a file and then raised: the checkpoint is still at cut
C23_FailedUploadStaysCut ==
    /\ pc = "raised" /\ raised.at = "upload"
    /\ uploads # {}
    /\ disk.step = "cut" /\ ~torn

\* C24: provided every send attempt returns, step_cut_all terminates for any
\* plan and any interleaving of the workers: once the pool is running, the
\* queue drains, the sender sees the done signal with an empty queue and
\* exits, and the checkpoint is saved with stage cut.
C24_CutTerminates ==
    /\ <>(pc \in {"done", "raised"})
    /\ [](pc = "raised" => plan = NoPlan)
    /\ [](CutSaving => (tg_done /\ tgq = <<>> /\ unfinished = 0 /\ sent = enq
                                /\ sender = "exited"))
    /\ []((pc = "done" /\ plan > 0) => (disk.step = "cut" /\ ~torn))

\* the sender has exited after forwarding every item of a full plan, one send
\* having reported failure, and the checkpoint is being saved
C24_SenderExitedBeforeSave ==
    /\ CutSaving /\ sender = "exited" /\ tg_done
    /\ plan = MaxClips /\ Len(sent) >= MaxClips /\ sent = enq
    /\ lastSend = "failed"

CutStep(c) == clipSt[c] = "running" /\ clipSt'[c] = "finished"

\* the outputs of clip c that a call with these flags is to produce
Wanted(c) == {o \in {c} \X Aspects : o[2] = "h" \/ ~skipv}

\* a call for a clip whose wanted outputs are all there invokes no encoder
\* and returns them; a stage in which every call did so counts every clip
RecutIsFree ==
    /\ [][\A c \in Clips :
            (CutStep(c) /\ \A o \in Wanted(c) : clipFile[o] # "none") =>
                /\ encRuns' = encRuns
                /\ res'[c] = <<TRUE, ~skipv>>]_vars
    /\ []((CutSaving /\ \A c \in 1..plan : res[c] = <<TRUE, ~skipv>>) =>
            (cut_count = plan /\ errors = <<>>))

\* C26 (as stated): _cut_clip invokes the encoder for an output if and only
\* if its target file does not exist, and never for the alternate output when
\* alternate cuts are disabled; a second cut with all outputs present invokes
\* no encoder and reports every clip as a success.
C26_EncodesExactlyMissing ==
    /\ [][\A c \in Clips : CutStep(c) =>
            \A o \in {c} \X Aspects :
                (o \in encRuns') <=> (clipFile[o] = "none" /\ o \in Wanted(c))]_vars
    /\ RecutIsFree

\* C26 (amended): _cut_clip invokes the encoder for the primary output if and
\* only if its file does not exist, and for the alternate output if and only
\* if its file does not exist, alternate cuts are enabled and the primary pass
\* has not failed; a second cut with all outputs present invokes no encoder
\* and reports every clip as a success.
C26_EncodesMissingWhenReached ==
    /\ [][\A c \in Clips : CutStep(c) =>
            /\ (<<c, "h">> \in encRuns') <=> (clipFile[<<c, "h">>] = "none")
            /\ (<<c, "v">> \in encRuns') <=>
                 /\ clipFile[<<c, "v">>] = "none"
                 /\ ~skipv
                 /\ clipFile'[<<c, "h">>] # "none"]_vars
    /\ RecutIsFree

\* the call for the last clip of a full plan finds both outputs there: it
\* has returned them without an encoder run
C26_ReturnedWithoutEncoding ==
    /\ pc = "cutting" /\ ~skipv /\ plan = MaxClips
    /\ clipSt[MaxClips] = "finished"
    /\ res[MaxClips] = <<TRUE, TRUE>>
    /\ encRuns = {} /\ encFail = {}

\* ---- the stage values that are ever written ------------------------------
\* the values step_local_ingest, step_download, step_transcribe, step_cut_all
\* and step_upload assign to state["step"]
WrittenStages == {"downloaded", "transcribed", "cut", "uploaded"}

\* this run has called step_cut_all
CutCalled == \E k \in DOMAIN trace : trace[k] = "cut"

\* C28: no stage function writes clips_identified: the persisted stage and the
\* stage held in memory are only ever downloaded, transcribed, cut or uploaded
\* (or absent, before the first save), so a run without intent flags calls the
\* cut stage only when the checkpoint it began with was already at stage cut
C28_OnlyFourStagesWritten ==
    /\ disk.step \in WrittenStages \cup {EmptyState.step}
    /\ mem.step \in WrittenStages \cup {EmptyState.step}
    /\ (intent = "full" /\ CutCalled) => (step0 = "cut" /\ mem.step \in {"cut", "uploaded"})

\* a run without intent flags began at stage cut, cut and uploaded
C28_FullRunFromCut ==
    /\ intent = "full" /\ CutCalled
    /\ pc = "done" /\ disk.step = "uploaded"

\* ---- the stage before uploaded -------------------------------------------
\* C29 (as stated): the persisted stage becomes uploaded only from stage cut
\* (or stays uploaded): no sequence of runs takes it from downloaded or
\* transcribed to uploaded without stage cut persisted in between
C29_UploadedOnlyAfterCut ==
    [][(disk'.step = "uploaded" /\ disk.step # "uploaded") => disk.step = "cut"]_vars

\* ---- what a counted clip rests on ----------------------------------------
\* the loop has counted clip c as a success
Counted(c) == clipSt[c] = "collected" /\ CutSucceeded(res[c])

\* C30 (as stated): a clip is counted as successfully cut only if an encoder
\* invocation for its primary output exited with status zero, in this run or
\* an earlier one: a file left by a killed or failed encoder is not counted
\* when the cut stage is run again
C30_CountedOnlyIfEncoded ==
    \A c \in Clips : Counted(c) => clipFile[<<c, "h">>] = "ok"

\* ---- a send that raises inside the sender thread -------------------------
\* C31 (as stated): step_cut_all returns or raises once the workers are done,
\* also when a send_video call inside the sender thread raises: it never
\* waits forever for the queue to drain
C31_TerminatesWhenSendRaises ==
    <>(pc \in {"done", "raised"})

\* ---- the cut stage on an empty plan --------------------------------------
\* C32: with a plan file of no clips, step_cut_all returns the state it was
\* given and leaves state.json as it is (no stage cut, no clips_cut written),
\* submits no clip to the pool, starts no sender thread, queues and sends
\* nothing, and touches no clip file
C32_EmptyPlanCutIsNoOp ==
    [][(pc = "cut" /\ plan = 0) =>
        /\ pc' = AfterStage("cut", intent)
        /\ disk' = disk /\ torn' = torn /\ mem' = mem
        /\ clipFile' = clipFile
        /\ \A c \in Clips : clipSt'[c] = "idle"
        /\ sender' = "none"
        /\ tgq' = <<>> /\ enq' = <<>> /\ sent' = <<>>
        /\ "cut" \notin ran']_vars

\* a --cut-only run on an empty plan has returned: the checkpoint is still
\* at stage transcribed
C32_ReturnedOnEmptyPlan ==
    /\ intent = "cut_only" /\ plan = 0
    /\ trace = <<"ingest", "cut">> /\ pc = "done"
    /\ disk.step = "transcribed" /\ disk.clips_cut = EmptyState.clips_cut
    /\ sender = "none"

\* ---- the draft cut and the checkpoint ------------------------------------
\* C33: step_cut_draft never modifies the checkpoint: whether it raises,
\* returns on an empty plan, or cuts the top clip with the encoder exiting
\* zero or nonzero, state.json and the state dict are after the call what
\* they were before it; and a run with --draft ends with the checkpoint the
\* draft stage was called with
C33_DraftKeepsCheckpoint ==
    /\ [][pc = "draft" => (disk' = disk /\ torn' = torn /\ mem' = mem)]_vars
    /\ []((intent = "draft" /\ pc = "done") => (disk = stage0 /\ mem = stage0))

\* a draft whose primary encode failed has returned, on a checkpoint that
\* was already at stage cut
C33_FailedDraftAtCut ==
    /\ intent = "draft" /\ pc = "done"
    /\ top_clip = 1 /\ clipFile[<<1, "h">>] = "none"
    /\ disk.step = "cut"

====
